---------------------------- MODULE Spec2Model ----------------------------
(***************************************************************************)
(* ImageRename (image_rename.py): renaming of files named                  *)
(* OriginalFilename_YYYYMMDD_Caption.extension into                        *)
(* YYYYMMDD_Caption_OriginalFilename.extension, for one file or for the    *)
(* files of a directory (flat or recursive), with a dry-run mode.          *)
(*                                                                         *)
(* One behaviour is one run of the program (main) or one call of           *)
(* rename_file or rename_files_in_directory (as the tests call them), on   *)
(* any initial filesystem.  main's calls of the two functions are the same *)
(* steps as the tests' calls; main then goes on to turn what the function  *)
(* returned into its exit status.                                          *)
(*                                                                         *)
(* A filename is a sequence of one-character strings.  A path is a         *)
(* sequence of filenames (its components below the working directory).     *)
(* The filesystem is a set of entries [path, kind, id]; kind is "file",    *)
(* "dir" or "other" (a fifo, a socket, a device), and id is the identity   *)
(* of the entry: the path it had in the initial filesystem.                *)
(***************************************************************************)
EXTENDS Naturals, Integers, Sequences, FiniteSets, TLC

VARIABLES
    fs,        \* the filesystem: a set of entries [path, kind, id]
    pc,        \* "idle", "walking" (in the loop of rename_files_in_directory),
               \* "returned" (rename_file or rename_files_in_directory returned
               \* to its caller), "done" (main returned)
    run,       \* the operation: its name, arguments and list of files
    files,     \* the candidates of the walk not processed yet
    stats,     \* the stats dictionary of the walk
    last,      \* the last call of rename_file: its arguments and what it returned
    log,       \* the calls of rename_file the walk has made
    exit,      \* the exit status of main, as a set: empty until main returns
    fs0        \* the filesystem the behaviour started with

vars == <<fs, pc, run, files, stats, last, log, exit, fs0>>

-----------------------------------------------------------------------------
(* Bounds of the model.                                                    *)

\* The number of regular files of the initial filesystem.
MaxFiles == 2

-----------------------------------------------------------------------------
(* Characters and the character classes of Python's re module, over the    *)
(* ASCII letters and digits.                                               *)

Digits == {"0", "1", "2", "3", "4", "5", "6", "7", "8", "9"}

Letters ==
    {"a", "b", "c", "d", "e", "f", "g", "h", "i", "j", "k", "l", "m",
     "n", "o", "p", "q", "r", "s", "t", "u", "v", "w", "x", "y", "z",
     "A", "B", "C", "D", "E", "F", "G", "H", "I", "J", "K", "L", "M",
     "N", "O", "P", "Q", "R", "S", "T", "U", "V", "W", "X", "Y", "Z"}

\* \d
IsDigit(c) == c \in Digits

\* \w
IsWord(c) == c \in Digits \/ c \in Letters \/ c = "_"

\* . (anything but a newline)
IsAny(c) == c # "\n"

\* The number of digits of the date group, \d{8}.
DateLen == 8

Max(S) == CHOOSE x \in S : \A y \in S : y <= x

\* The positions at which $ matches: the end of the string, and just before
\* a newline that ends the string.
EndPositions(s) ==
    {Len(s)} \cup (IF Len(s) > 0 /\ s[Len(s)] = "\n" THEN {Len(s) - 1} ELSE {})

\* <<p, q, e>> is a way for ^(.+)_(\d{8})_(.+)(\.\w+)$ to match s:
\* group 1 is s[1..p], group 2 is s[p+2..p+1+DateLen],
\* group 3 is s[p+3+DateLen..q-1], group 4 is s[q..e].
IsSplit(s, p, q, e) ==
    /\ p >= 1
    /\ \A i \in 1..p : IsAny(s[i])
    /\ p + 2 + DateLen <= Len(s)
    /\ s[p + 1] = "_"
    /\ \A i \in (p + 2)..(p + 1 + DateLen) : IsDigit(s[i])
    /\ s[p + 2 + DateLen] = "_"
    /\ q >= p + 4 + DateLen
    /\ q < e
    /\ \A i \in (p + 3 + DateLen)..(q - 1) : IsAny(s[i])
    /\ s[q] = "."
    /\ \A i \in (q + 1)..e : IsWord(s[i])
    /\ e \in EndPositions(s)

Splits(s) ==
    {t \in {i \in 1..(Len(s) - 1) : s[i + 1] = "_"}
            \X {i \in 1..Len(s) : s[i] = "."}
            \X EndPositions(s) :
        IsSplit(s, t[1], t[2], t[3])}

NoMatch == [ok |-> FALSE]

\* re.match(pattern, filename): the groups of the match the backtracking
\* finds first (each greedy group as long as possible, leftmost group
\* first), or NoMatch for None.
matches_old_filename_format(filename) ==
    LET S == Splits(filename) IN
    IF S = {} THEN NoMatch
    ELSE LET p == Max({t[1] : t \in S})
             q == Max({t[2] : t \in {u \in S : u[1] = p}})
             e == Max({t[3] : t \in {u \in S : u[1] = p /\ u[2] = q}})
         IN  [ok |-> TRUE,
              g1 |-> SubSeq(filename, 1, p),
              g2 |-> SubSeq(filename, p + 2, p + 1 + DateLen),
              g3 |-> SubSeq(filename, p + 3 + DateLen, q - 1),
              g4 |-> SubSeq(filename, q, e)]

\* Python's None where a filename is expected (a filename is never empty).
NoName == <<>>

generate_new_filename(filename) ==
    LET match == matches_old_filename_format(filename) IN
    IF ~match.ok THEN NoName
    ELSE match.g2 \o <<"_">> \o match.g3 \o <<"_">> \o match.g1 \o match.g4

-----------------------------------------------------------------------------
(* The filenames the model draws its files from.                           *)

\* 'a_11111111_b.x': a plain OriginalFilename_YYYYMMDD_Caption.extension name
NameSimple ==
    <<"a", "_", "1", "1", "1", "1", "1", "1", "1", "1", "_", "b", ".", "x">>

\* '11111111_b_a.x': the new name of NameSimple
NameTarget ==
    <<"1", "1", "1", "1", "1", "1", "1", "1", "_", "b", "_", "a", ".", "x">>

\* 'n.x': a name with no date
NamePlain ==
    <<"n", ".", "x">>

\* 'a_11111111_b_22222222_c.x': a caption after a second date
NameTwoDates ==
    <<"a", "_", "1", "1", "1", "1", "1", "1", "1", "1", "_", "b", "_",
      "2", "2", "2", "2", "2", "2", "2", "2", "_", "c", ".", "x">>

\* '22222222_c_a_11111111_b.x': the new name of NameTwoDates
NameTwoDatesNew ==
    <<"2", "2", "2", "2", "2", "2", "2", "2", "_", "c", "_", "a", "_",
      "1", "1", "1", "1", "1", "1", "1", "1", "_", "b", ".", "x">>

\* 'a_b_11111111_c.x': maps to the same new name as NameRight
NameLeft ==
    <<"a", "_", "b", "_", "1", "1", "1", "1", "1", "1", "1", "1", "_",
      "c", ".", "x">>

\* 'b_11111111_c_a.x': maps to the same new name as NameLeft
NameRight ==
    <<"b", "_", "1", "1", "1", "1", "1", "1", "1", "1", "_", "c", "_",
      "a", ".", "x">>

\* '11111111_11111111_11111111.x': its new name is the name itself
NameSelf ==
    <<"1", "1", "1", "1", "1", "1", "1", "1", "_", "1", "1", "1", "1",
      "1", "1", "1", "1", "_", "1", "1", "1", "1", "1", "1", "1", "1",
      ".", "x">>

\* 'sub': a directory name
NameSub ==
    <<"s", "u", "b">>

Pool ==
    {NameSimple, NameTarget, NamePlain, NameTwoDates, NameTwoDatesNew,
     NameLeft, NameRight, NameSelf}

\* The filenames a subdirectory's files are drawn from.
SubPool == {NameSimple, NamePlain}

-----------------------------------------------------------------------------
(* The filesystem, as pathlib sees it.                                     *)

\* The working directory.
Top == <<>>

Parent(path) == SubSeq(path, 1, Len(path) - 1)

Name(path) == path[Len(path)]

\* Path.exists()
exists(f, path) == path = Top \/ \E e \in f : e.path = path

\* Path.is_file()
is_file(f, path) == \E e \in f : e.path = path /\ e.kind = "file"

\* Path.is_dir()
is_dir(f, path) == path = Top \/ \E e \in f : e.path = path /\ e.kind = "dir"

\* glob as a slip would have it: descending into the subdirectories.
globDeep(f, directory) ==
    {e.path : e \in {x \in f : /\ Len(x.path) > Len(directory)
                               /\ SubSeq(x.path, 1, Len(directory)) = directory}}

\* Path.glob("*"): the entries of the directory itself, hidden ones included.
glob(f, directory) ==
    {e.path : e \in {x \in f : Parent(x.path) = directory}}

\* Path.rglob("*"): the entries of the whole subtree.
rglob(f, directory) ==
    {e.path : e \in {x \in f : /\ Len(x.path) > Len(directory)
                               /\ SubSeq(x.path, 1, Len(directory)) = directory}}

\* Path.rename(new_path) when the operating system carries it out: the entry
\* moves, and replaces the file new_path named, if any (os.rename on POSIX).
rename(f, path, new_path) ==
    {e \in f : e.path # path /\ e.path # new_path}
        \cup {[e EXCEPT !.path = new_path] : e \in {x \in f : x.path = path}}

\* str(path)
RECURSIVE Str(_)
Str(path) ==
    IF path = Top THEN <<".">>
    ELSE IF Len(path) = 1 THEN path[1]
    ELSE Str(Parent(path)) \o <<"/">> \o Name(path)

-----------------------------------------------------------------------------
(* rename_file and the body of the loop of rename_files_in_directory.      *)

Outcome(success, old_name, new_name, message, f) ==
    [success |-> success, old_name |-> old_name, new_name |-> new_name,
     message |-> message, fs |-> f]

\* rename_file as a slip would have it: dry_run not looked at.
rename_fileIgnoresDryRun(f, filepath, dry_run, os_error) ==
    IF ~exists(f, filepath)
    THEN Outcome(FALSE, Str(filepath), NoName, "File does not exist", f)
    ELSE IF ~is_file(f, filepath)
    THEN Outcome(FALSE, Str(filepath), NoName, "Not a file", f)
    ELSE
    LET filename == Name(filepath)
        new_filename == generate_new_filename(filename)
        new_path == Append(Parent(filepath), new_filename)
    IN  IF new_filename = NoName
        THEN Outcome(FALSE, filename, NoName,
                     "Does not match OriginalFilename_YYYYMMDD_Caption pattern", f)
        ELSE IF exists(f, new_path)
        THEN Outcome(FALSE, filename, new_filename, "Target file already exists", f)
        ELSE IF os_error
        THEN Outcome(FALSE, filename, new_filename, "Error: OSError", f)
        ELSE Outcome(TRUE, filename, new_filename, "Successfully renamed",
                     rename(f, filepath, new_path))

\* rename_file as a slip would have it: an existing target reported like a
\* name that does not match (no new name).
rename_fileCollisionSkips(f, filepath, dry_run, os_error) ==
    IF ~exists(f, filepath)
    THEN Outcome(FALSE, Str(filepath), NoName, "File does not exist", f)
    ELSE IF ~is_file(f, filepath)
    THEN Outcome(FALSE, Str(filepath), NoName, "Not a file", f)
    ELSE
    LET filename == Name(filepath)
        new_filename == generate_new_filename(filename)
        new_path == Append(Parent(filepath), new_filename)
    IN  IF new_filename = NoName
        THEN Outcome(FALSE, filename, NoName,
                     "Does not match OriginalFilename_YYYYMMDD_Caption pattern", f)
        ELSE IF exists(f, new_path)
        THEN Outcome(FALSE, filename, NoName, "Target file already exists", f)
        ELSE IF dry_run
        THEN Outcome(TRUE, filename, new_filename, "Would rename (dry run)", f)
        ELSE IF os_error
        THEN Outcome(FALSE, filename, new_filename, "Error: OSError", f)
        ELSE Outcome(TRUE, filename, new_filename, "Successfully renamed",
                     rename(f, filepath, new_path))

\* rename_file as a slip would have it: the target not checked before the
\* rename.
rename_fileNoTargetCheck(f, filepath, dry_run, os_error) ==
    IF ~exists(f, filepath)
    THEN Outcome(FALSE, Str(filepath), NoName, "File does not exist", f)
    ELSE IF ~is_file(f, filepath)
    THEN Outcome(FALSE, Str(filepath), NoName, "Not a file", f)
    ELSE
    LET filename == Name(filepath)
        new_filename == generate_new_filename(filename)
        new_path == Append(Parent(filepath), new_filename)
    IN  IF new_filename = NoName
        THEN Outcome(FALSE, filename, NoName,
                     "Does not match OriginalFilename_YYYYMMDD_Caption pattern", f)
        ELSE IF dry_run
        THEN Outcome(TRUE, filename, new_filename, "Would rename (dry run)", f)
        ELSE IF os_error
        THEN Outcome(FALSE, filename, new_filename, "Error: OSError", f)
        ELSE Outcome(TRUE, filename, new_filename, "Successfully renamed",
                     rename(f, filepath, new_path))

\* rename_file(filepath, dry_run) on filesystem f; os_error tells whether the
\* operating system refuses the rename (path.rename raises).  The result is
\* the returned tuple together with the filesystem the call leaves.
rename_file(f, filepath, dry_run, os_error) ==
    IF ~exists(f, filepath)
    THEN Outcome(FALSE, Str(filepath), NoName, "File does not exist", f)
    ELSE IF ~is_file(f, filepath)
    THEN Outcome(FALSE, Str(filepath), NoName, "Not a file", f)
    ELSE
    LET filename == Name(filepath)
        new_filename == generate_new_filename(filename)
        new_path == Append(Parent(filepath), new_filename)
    IN  IF new_filename = NoName
        THEN Outcome(FALSE, filename, NoName,
                     "Does not match OriginalFilename_YYYYMMDD_Caption pattern", f)
        ELSE IF exists(f, new_path)
        THEN Outcome(FALSE, filename, new_filename, "Target file already exists", f)
        ELSE IF dry_run
        THEN Outcome(TRUE, filename, new_filename, "Would rename (dry run)", f)
        ELSE IF os_error
        THEN Outcome(FALSE, filename, new_filename, "Error: OSError", f)
        ELSE Outcome(TRUE, filename, new_filename, "Successfully renamed",
                     rename(f, filepath, new_path))

\* The stats dictionary of a walk that starts.
NewStats ==
    [total |-> 0, renamed |-> 0, skipped |-> 0, errors |-> 0, error |-> FALSE]

\* The stats dictionary returned for a missing directory or a non-directory.
ErrorStats == [error |-> TRUE]

\* Count as a slip would have it: a file that does not match counted in
\* total only.
CountForgetsSkipped(st, o) ==
    LET t == [st EXCEPT !.total = @ + 1] IN
    IF o.success THEN [t EXCEPT !.renamed = @ + 1]
    ELSE IF o.new_name = NoName THEN t
    ELSE [t EXCEPT !.errors = @ + 1]

\* One iteration of the loop: the classification of rename_file's result.
Count(st, o) ==
    LET t == [st EXCEPT !.total = @ + 1] IN
    IF o.success THEN [t EXCEPT !.renamed = @ + 1]
    ELSE IF o.new_name = NoName THEN [t EXCEPT !.skipped = @ + 1]
    ELSE [t EXCEPT !.errors = @ + 1]

\* Rest as a slip would have it: the loop running over the live directory,
\* so that what a rename creates is visited too.
RestLive(list, file_path, created) == (list \ {file_path}) \cup created

\* What is left of the list once the loop has taken file_path from it.  The
\* list was built before the loop: the paths a rename creates (created) are
\* not in it.
Rest(list, file_path, created) == list \ {file_path}

\* The loop of rename_files_in_directory over the files in the given order,
\* from filesystem f and stats st, when the operating system refuses no
\* rename: the stats returned and the filesystem left.
RECURSIVE Loop(_, _, _, _)
Loop(f, st, order, dry_run) ==
    IF order = <<>> THEN [stats |-> st, fs |-> f]
    ELSE LET o == rename_file(f, Head(order), dry_run, FALSE)
         IN  Loop(o.fs, Count(st, o), Tail(order), dry_run)

\* The list the loop runs over: the entries of the directory (of its subtree
\* when recursive) that are regular files.
Candidates(f, directory, recursive) ==
    {path \in (IF recursive THEN rglob(f, directory) ELSE glob(f, directory)) :
        is_file(f, path)}

-----------------------------------------------------------------------------
(* The initial filesystems.                                                *)

\* The sets of at most k elements of S.
RECURSIVE UpTo(_, _)
UpTo(S, k) ==
    IF k = 0 THEN {{}}
    ELSE LET R == UpTo(S, k - 1) IN R \cup {r \cup {x} : r \in R, x \in S}

Entry(path, kind) == [path |-> path, kind |-> kind, id |-> path]

\* What the working directory holds besides regular files: nothing, a
\* subdirectory with one of its own, a subdirectory named like the new name
\* of a file, or a special file named like the new name of a file.
Extras ==
    {{},
     {Entry(<<NameSub>>, "dir"), Entry(<<NameSub, NameSub>>, "dir")},
     {Entry(<<NameTarget>>, "dir")},
     {Entry(<<NameTarget>>, "other")}}

FilePaths(extra) ==
    ({<<n>> : n \in Pool}
        \cup {Append(e.path, n) : e \in {x \in extra : x.kind = "dir"}, n \in SubPool})
    \ {e.path : e \in extra}

InitialFilesystems ==
    UNION {{extra \cup {Entry(path, "file") : path \in P} :
               P \in UpTo(FilePaths(extra), MaxFiles)} : extra \in Extras}

\* The paths rename_file and main are called with: every entry, the working
\* directory, and a path that may name nothing.
InputPaths(f) == {e.path : e \in f} \cup {Top, <<NameSimple>>}

\* The paths rename_files_in_directory is called with: every directory, and
\* a path that may name a file or nothing.
InputDirectories(f) ==
    {e.path : e \in {x \in f : x.kind = "dir"}} \cup {Top, <<NameSimple>>}

NoRun ==
    [op |-> "none", path |-> Top, recursive |-> FALSE, dry_run |-> FALSE,
     snapshot |-> {}, created |-> {}]

NoLast == [called |-> FALSE]

Init ==
    /\ fs \in InitialFilesystems
    /\ pc = "idle"
    /\ run = NoRun
    /\ files = {}
    /\ stats = NewStats
    /\ last = NoLast
    /\ log = {}
    /\ exit = {}
    /\ fs0 = fs

-----------------------------------------------------------------------------
(* The operations.                                                         *)

\* What a call of rename_file leaves in last: its arguments, the filesystem
\* before it, and the tuple it returns.
Last(filepath, dry_run, before, o) ==
    [called |-> TRUE, path |-> filepath, dry_run |-> dry_run, before |-> before,
     success |-> o.success, old_name |-> o.old_name, new_name |-> o.new_name,
     message |-> o.message]

Started(op, path, recursive, dry_run, snapshot) ==
    [op |-> op, path |-> path, recursive |-> recursive, dry_run |-> dry_run,
     snapshot |-> snapshot, created |-> {}]

\* A call of rename_file(filepath, dry_run), by a test or by main.
RenameFile ==
    /\ pc = "idle"
    /\ \E filepath \in InputPaths(fs), dry_run \in BOOLEAN, os_error \in BOOLEAN :
        LET o == rename_file(fs, filepath, dry_run, os_error) IN
        /\ pc' = "returned"
        /\ fs' = o.fs
        /\ last' = Last(filepath, dry_run, fs, o)
        /\ run' = Started("rename_file", filepath, FALSE, dry_run, {})
        /\ UNCHANGED <<files, stats, log, exit, fs0>>

\* A call of rename_files_in_directory(directory, recursive, dry_run), by a
\* test or by main, up to its loop: the checks of the directory, the stats
\* dictionary and the list of files.
RenameFilesInDirectory ==
    /\ pc = "idle"
    /\ \E directory \in InputDirectories(fs), recursive \in BOOLEAN, dry_run \in BOOLEAN :
        LET bad == ~exists(fs, directory) \/ ~is_dir(fs, directory)
            list == IF bad THEN {} ELSE Candidates(fs, directory, recursive)
        IN
        /\ pc' = IF bad THEN "returned" ELSE "walking"
        /\ stats' = IF bad THEN ErrorStats ELSE NewStats
        /\ files' = list
        /\ run' = Started("rename_files_in_directory", directory, recursive,
                          dry_run, list)
        /\ UNCHANGED <<fs, last, log, exit, fs0>>

\* One iteration of the loop of rename_files_in_directory, on whichever file
\* the enumeration yields next.
WalkStep ==
    /\ pc = "walking"
    /\ files # {}
    /\ \E file_path \in files, os_error \in BOOLEAN :
        LET o == rename_file(fs, file_path, run.dry_run, os_error) IN
        /\ fs' = o.fs
        /\ stats' = Count(stats, o)
        /\ files' = Rest(files, file_path,
                          {e.path : e \in o.fs} \ {e.path : e \in fs})
        /\ last' = Last(file_path, run.dry_run, fs, o)
        /\ log' = log \cup {[path |-> file_path,
                             success |-> o.success,
                             new_name |-> o.new_name,
                             message |-> o.message,
                             chained |-> file_path \in run.created]}
        /\ run' = [run EXCEPT !.created =
                       @ \cup ({e.path : e \in o.fs} \ {e.path : e \in fs})]
    /\ UNCHANGED <<pc, exit, fs0>>

\* The loop ends and rename_files_in_directory returns stats.
WalkReturn ==
    /\ pc = "walking"
    /\ files = {}
    /\ pc' = "returned"
    /\ UNCHANGED <<fs, run, files, stats, last, log, exit, fs0>>

\* main returns before it calls anything.
MainReturns(op, status) ==
    /\ pc = "idle"
    /\ pc' = "done"
    /\ run' = Started(op, Top, FALSE, FALSE, {})
    /\ exit' = {status}
    /\ UNCHANGED <<fs, files, stats, last, log, fs0>>

\* main --version
MainVersion == MainReturns("version", 0)

\* main without a path
MainUsage == MainReturns("usage", 1)

\* main on a path that does not exist
MainMissing ==
    \E path \in InputPaths(fs) :
        /\ ~exists(fs, path)
        /\ MainReturns("missing", 1)

\* main on a path that is neither a file nor a directory
MainNeither ==
    \E path \in InputPaths(fs) :
        /\ exists(fs, path)
        /\ ~is_file(fs, path)
        /\ ~is_dir(fs, path)
        /\ MainReturns("neither", 1)

\* main on a file: the call of rename_file was main's, and main returns 0 if
\* it succeeded and 1 otherwise.
MainFile ==
    /\ pc = "returned"
    /\ run.op = "rename_file"
    /\ exists(fs0, run.path)
    /\ is_file(fs0, run.path)
    /\ pc' = "done"
    /\ exit' = {IF last.success THEN 0 ELSE 1}
    /\ UNCHANGED <<fs, run, files, stats, last, log, fs0>>

\* main on a directory: the call of rename_files_in_directory was main's, and
\* main returns 1 if stats has the error flag or counts errors, else 0.
MainDirectory ==
    /\ pc = "returned"
    /\ run.op = "rename_files_in_directory"
    /\ exists(fs0, run.path)
    /\ ~is_file(fs0, run.path)
    /\ is_dir(fs0, run.path)
    /\ pc' = "done"
    /\ exit' = {IF stats.error THEN 1 ELSE IF stats.errors = 0 THEN 0 ELSE 1}
    /\ UNCHANGED <<fs, run, files, stats, last, log, fs0>>

Next ==
    \/ RenameFile
    \/ RenameFilesInDirectory
    \/ WalkStep
    \/ WalkReturn
    \/ MainVersion
    \/ MainUsage
    \/ MainMissing
    \/ MainNeither
    \/ MainFile
    \/ MainDirectory

Spec == Init /\ [][Next]_vars

-----------------------------------------------------------------------------
(* Single-file mode on a family of names PREFIX_<id>_<date>_<text><.ext>.  *)

DigitString == <<"2", "0", "2", "3", "1", "2", "1", "5", "9">>

Join(prefix, id, date, text, ext) ==
    prefix \o <<"_">> \o id \o <<"_">> \o date \o <<"_">> \o text \o ext

\* The names with a 3- to 5-digit id and a 7- to 9-digit date.
VariantANames ==
    {Join(prefix, SubSeq(DigitString, 1, i), SubSeq(DigitString, 1, d), text, ext) :
        prefix \in {<<"I", "M", "G">>, <<"D", "S", "C", "_", "a">>},
        i \in {3, 4, 5},
        d \in {7, 8, 9},
        text \in {<<"T">>, <<"N", "e", "w", "_", "Y">>},
        ext \in {<<".", "j", "p", "g">>, <<".", "P", "N", "G">>}}

\* The working directory holds one file, named in the family.
InitSingleFile ==
    /\ fs \in {{Entry(<<name>>, "file")} : name \in VariantANames}
    /\ pc = "idle"
    /\ run = NoRun
    /\ files = {}
    /\ stats = NewStats
    /\ last = NoLast
    /\ log = {}
    /\ exit = {}
    /\ fs0 = fs

NextSingleFile ==
    \/ RenameFile
    \/ MainFile

SpecSingleFile == InitSingleFile /\ [][NextSingleFile]_vars

-----------------------------------------------------------------------------
(* Vocabulary of the properties.                                           *)

\* A walk of a valid directory is running or has returned.
Walked == run.op = "rename_files_in_directory" /\ ~stats.error

Paths(f) == {e.path : e \in f}

\* The new path rename_file computes for a path whose name matches (for any
\* other path, a path that names nothing).
NewPath(path) == Append(Parent(path), generate_new_filename(Name(path)))

Matches(path) == matches_old_filename_format(Name(path)).ok

\* The name of path matches and its new path is free in filesystem f.
Renamable(f, path) ==
    LET new_path == NewPath(path) IN Name(new_path) # NoName /\ ~exists(f, new_path)

\* The name of path matches and its new path exists in filesystem f.
Colliding(f, path) ==
    LET new_path == NewPath(path) IN Name(new_path) # NoName /\ exists(f, new_path)

\* Every entry is where it was at the start, or one rename away from there.
AtMostOneRename(f) == \A e \in f : e.path = e.id \/ e.path = NewPath(e.id)

\* path lies in the subtree of directory (and is not directory itself).
Under(path, directory) ==
    /\ Len(path) > Len(directory)
    /\ \A i \in 1..Len(directory) : path[i] = directory[i]

\* The regular files of filesystem f a walk of directory has to process.
Scope(f, directory, recursive) ==
    {e.path : e \in {x \in f :
        /\ x.kind = "file"
        /\ Under(x.path, directory)
        /\ (recursive \/ Len(x.path) = Len(directory) + 1)}}

\* The "_"-separated fields of a filename, in order.
RECURSIVE Fields(_)
Fields(name) ==
    IF \A i \in 1..Len(name) : name[i] # "_" THEN <<name>>
    ELSE LET k == CHOOSE i \in 1..Len(name) :
                      name[i] = "_" /\ \A j \in 1..(i - 1) : name[j] # "_"
         IN  <<SubSeq(name, 1, k - 1)>> \o Fields(SubSeq(name, k + 1, Len(name)))

AllDigits(s) == Len(s) > 0 /\ \A i \in 1..Len(s) : IsDigit(s[i])

\* name has the shape PREFIX_<id>_<date>_<text><.ext>, with digits for id
\* and date.
VariantAShape(name) ==
    LET fields == Fields(name) IN
    /\ Len(fields) >= 4
    /\ ~AllDigits(fields[1])
    /\ AllDigits(fields[2])
    /\ AllDigits(fields[3])
    /\ \E i \in 1..Len(name) : name[i] = "."

\* Some order of the files of a set.
SomeOrder(S) ==
    CHOOSE order \in [1..Cardinality(S) -> S] : \A x \in S : \E i \in DOMAIN order : order[i] = x

-----------------------------------------------------------------------------
(* The properties.                                                         *)

\* C1: in a walk of a valid directory, after every file processed and at the
\* return, total = renamed + skipped + errors; total is the number of files
\* processed so far, and each of them is in exactly one bucket.
StatsAddUp ==
    Walked =>
        /\ stats.total = stats.renamed + stats.skipped + stats.errors
        /\ stats.total = Cardinality(run.snapshot \ files)
        /\ stats.renamed = Cardinality({l \in log : l.success})
        /\ stats.skipped = Cardinality({l \in log : ~l.success /\ l.new_name = NoName})
        /\ stats.errors = Cardinality({l \in log : ~l.success /\ l.new_name # NoName})

StatsAddUpWitness ==
    /\ Walked
    /\ pc = "returned"
    /\ stats.renamed = 1
    /\ stats.skipped = 1

\* C2: a dry run (of rename_file, or of a walk, recursive or not) leaves the
\* set of existing paths as it was; a matching file whose new name is free
\* is still there afterwards, its new name still is not, and the call
\* reports success with the new name, which the walk counts as renamed.
DryRunMutatesNothing ==
    /\ (run.op \in {"rename_file", "rename_files_in_directory"} /\ run.dry_run)
          => fs = fs0
    /\ (/\ last.called
        /\ last.dry_run
        /\ is_file(last.before, last.path)
        /\ Renamable(last.before, last.path))
          => /\ last.success
             /\ last.new_name = Name(NewPath(last.path))
             /\ is_file(fs, last.path)
             /\ ~exists(fs, NewPath(last.path))
    /\ (Walked /\ run.dry_run)
          => stats.renamed =
                 Cardinality({path \in run.snapshot \ files : Renamable(fs0, path)})

DryRunWitness ==
    /\ Walked
    /\ run.dry_run
    /\ pc = "returned"
    /\ stats.renamed = 1
    /\ last.called
    /\ last.success

\* C3: when the new name of a matching file already exists in its directory,
\* rename_file returns failure with the new name and "Target file already
\* exists", the filesystem is untouched, and the walk counts the file under
\* errors (not under skipped or renamed).
TargetCollision ==
    /\ (/\ last.called
        /\ is_file(last.before, last.path)
        /\ Colliding(last.before, last.path))
          => /\ ~last.success
             /\ last.new_name = Name(NewPath(last.path))
             /\ last.message = "Target file already exists"
             /\ fs = last.before
    /\ Walked
          => /\ \A l \in log : l.message = "Target file already exists"
                                  => ~l.success /\ l.new_name # NoName
             /\ stats.errors >=
                    Cardinality({l \in log : l.message = "Target file already exists"})
             /\ stats.renamed + stats.skipped <=
                    Cardinality({l \in log : l.message # "Target file already exists"})

TargetCollisionWitness ==
    /\ Walked
    /\ pc = "returned"
    /\ last.called
    /\ last.message = "Target file already exists"
    /\ stats.errors = 1
    /\ stats.renamed = 0

\* C4: the name generate_new_filename produces does not match the pattern
\* again.
NewNameNeverMatches ==
    (last.called /\ last.new_name # NoName)
        => ~matches_old_filename_format(last.new_name).ok

\* C5: on an existing path, main returns 1 only if the path is neither a
\* file nor a directory or some file gave a real error (its new name exists,
\* or the operating system refused); files that do not match do not make it
\* return 1, in single-file mode as in directory mode.
SkippedNeverFails ==
    (pc = "done" /\ exit = {1} /\ run.op \notin {"usage", "missing"})
        => \/ run.op = "neither"
           \/ /\ run.op = "rename_file"
              /\ ~last.success
              /\ last.new_name # NoName
           \/ /\ run.op = "rename_files_in_directory"
              /\ \E l \in log : ~l.success /\ l.new_name # NoName

\* C6: a walk processes exactly the regular files that are children of the
\* directory (of its subtree when recursive), never a directory, never a
\* file outside; what it renames stays in its parent directory.
TraversalScope ==
    Walked =>
        /\ run.snapshot = Scope(fs0, run.path, run.recursive)
        /\ {l.path : l \in log} \cup files = Scope(fs0, run.path, run.recursive)
        /\ \A e \in fs :
              /\ e.path # e.id => e.id \in Scope(fs0, run.path, run.recursive)
              /\ Parent(e.path) = Parent(e.id)
              /\ e.kind # "file" => e.path = e.id

TraversalScopeWitness ==
    /\ Walked
    /\ pc = "returned"
    /\ ~run.recursive
    /\ run.path = Top
    /\ stats.renamed = 1
    /\ fs # fs0
    /\ \E e \in fs : e.kind = "file" /\ Len(e.path) = 2 /\ Matches(e.path)

\* C7: a name PREFIX_<id>_<date>_<text><.ext> is matched (and renamed) iff
\* its id has exactly 4 digits and its date exactly 8.
VariantAMatch ==
    (/\ last.called
     /\ is_file(last.before, last.path)
     /\ VariantAShape(Name(last.path)))
        => ((last.new_name # NoName)
               <=> /\ Len(Fields(Name(last.path))[2]) = 4
                   /\ Len(Fields(Name(last.path))[3]) = DateLen)

\* C8: the list of a walk is fixed when the loop starts; every file of it is
\* passed to rename_file exactly once, none after a rename of the walk
\* created its name; total ends as the number of regular files listed, and
\* no file is renamed twice.
NoRevisit ==
    Walked =>
        /\ run.snapshot = Scope(fs0, run.path, run.recursive)
        /\ files \subseteq run.snapshot
        /\ {l.path : l \in log} = run.snapshot \ files
        /\ Cardinality(log) = Cardinality(run.snapshot \ files)
        /\ \A l \in log : ~l.chained
        /\ stats.total = Cardinality(log)
        /\ pc = "returned" => stats.total = Cardinality(run.snapshot)
        /\ AtMostOneRename(fs)

NoRevisitWitness ==
    /\ Walked
    /\ pc = "returned"
    /\ run.created \cap run.snapshot # {}
    /\ stats.renamed = 2

\* C9: every order of processing the files of a walk gives the same counters
\* and the same final filenames (no rename refused by the operating system).
OrderIndependent ==
    (/\ Walked
     /\ pc = "returned"
     /\ \A l \in log : l.message # "Error: OSError")
        => LET r == Loop(fs0, NewStats, SomeOrder(run.snapshot), run.dry_run) IN
           /\ stats = r.stats
           /\ Paths(fs) = Paths(r.fs)

\* What C10 says of one call of rename_file and of the files of a walk: the
\* call moves one file to a path that was free, or changes nothing; the
\* entries keep their identity, kind and number, and a file of a walk has its
\* new name iff its call succeeded outside a dry run.
NothingClobbered ==
    /\ last.called =>
          IF last.success /\ ~last.dry_run
          THEN /\ ~exists(last.before, NewPath(last.path))
               /\ Paths(fs) = (Paths(last.before) \ {last.path}) \cup {NewPath(last.path)}
               /\ \A e \in last.before : \E x \in fs :
                     /\ x.id = e.id
                     /\ x.kind = e.kind
                     /\ x.path = IF e.path = last.path THEN NewPath(last.path) ELSE e.path
          ELSE fs = last.before
    /\ Cardinality(fs) = Cardinality(fs0)
    /\ Cardinality(Paths(fs)) = Cardinality(fs)
    /\ \A e \in fs0 : \E x \in fs : x.id = e.id /\ x.kind = e.kind
    /\ AtMostOneRename(fs)
    /\ Walked =>
          \A e \in fs :
              e.path # e.id <=> /\ ~run.dry_run
                                /\ \E l \in log : l.path = e.id /\ l.success

\* Two calls of the walk, for different files with the same new path.
SameTarget(l1, l2) ==
    /\ l1.path # l2.path
    /\ l1.new_name # NoName
    /\ l1.new_name = l2.new_name
    /\ Parent(l1.path) = Parent(l2.path)

=============================================================================
